---- MODULE Spec2Model ----
(***************************************************************************)
(* Scale-down reconciliation of the doris-operator:                        *)
(*   - the FE (metadata) tier: prepareStatefulsetApply and                 *)
(*     dropObserverBySqlClient of package fe;                              *)
(*   - the compute groups of a disaggregated cluster: Sync,                *)
(*     computeGroupSync, reconcileStatefulset, getScaleType,               *)
(*     initialCGStatus, UpdateComponentStatus, updateCGStatus and          *)
(*     scaledOutBENodesBySQL of package computegroups.                     *)
(* Kubernetes and the FE's SQL surface are the environment: whether a call *)
(* succeeds is an input of the action that makes it.                       *)
(***************************************************************************)
EXTENDS Integers, Sequences, FiniteSets, TLC

\* Largest replica count a specification asks for.
MaxReplicas == 2
\* Largest election number of the FE tier.
MaxElection == 2
\* Largest replica count of the FE tier.
MaxFeReplicas == 3

\* cg.Replicas == nil / cluster.Spec.FeSpec.Replicas == nil
NilReplicas == -1
\* apierrors.IsNotFound: the StatefulSet does not exist
NoSts == -1

\* dv1.Phase
Reconciling == "Reconciling"
Scaling == "Scaling"
Ready == "Ready"
Suspended == "Suspended"
SuspendFailed == "SuspendFailed"
ResumeFailed == "ResumeFailed"
ScaleDownFailed == "ScaleDownFailed"
Phases ==
  {Reconciling, Scaling, Ready, Suspended, SuspendFailed, ResumeFailed, ScaleDownFailed}

\* Unique identifiers a specification may carry; the last one breaks the naming pattern.
CGIds == {"cg1", "cg_2"}
BadId == "Cg!"

\* cluster.GetCGName(cg) / strings.ReplaceAll(uniqueId, "_", "-")
CGName(uniqueId) ==
  CASE uniqueId = "cg_2" -> "cg-2"
    [] OTHER -> uniqueId
CGNames == {CGName(u) : u \in CGIds}

(***************************************************************************)
(* Hosts. Of a backend's or frontend's host only the segment that the code *)
(* parses matters: strings.Split(host, ".")[0], split on "-", last piece.  *)
(* It is kept as a sequence of characters.                                 *)
(***************************************************************************)
DigitChars == <<"0", "1", "2", "3", "4", "5", "6", "7", "8", "9">>
OrdHost(i) == <<DigitChars[i + 1]>>
BadHost == <<"x">>

DigitOf(c) ==
  IF \E d \in 1..10 : DigitChars[d] = c
    THEN (CHOOSE d \in 1..10 : DigitChars[d] = c) - 1
    ELSE -1

\* strconv.Atoi on the last segment: -1 stands for the returned error.
RECURSIVE AtoiAcc(_, _)
AtoiAcc(s, acc) ==
  IF s = <<>> THEN acc
  ELSE IF DigitOf(Head(s)) < 0 THEN -1
  ELSE AtoiAcc(Tail(s), acc * 10 + DigitOf(Head(s)))
Atoi(s) == IF s = <<>> THEN -1 ELSE AtoiAcc(s, 0)

FEHosts == {OrdHost(i) : i \in 0..(MaxFeReplicas - 1)} \cup {BadHost}
BEHosts == {OrdHost(i) : i \in 0..(MaxReplicas - 1)} \cup {BadHost}

VARIABLES
  cgSpec,      \* ddc.Spec.ComputeGroups: sequence of [UniqueId, Replicas]
  cgStatuses,  \* ddc.Status.ComputeGroupStatuses
  health,      \* ddc.Status.ClusterHealth
  sts,         \* the compute groups' StatefulSets: spec.replicas, or None
  backends,    \* backends registered in the FE, by compute group name
  syncIdx,     \* position of Sync's loop over the groups; 0 outside Sync
  ucs,         \* UpdateComponentStatus: its goroutines and error channel
  feSpec,      \* cluster.Spec.FeSpec.Replicas and the election number
  feSts,       \* the FE StatefulSet: spec.replicas, or None
  observers,   \* observer frontends registered in the FE
  svc,         \* unique identifiers of the groups whose Service exists
  pvcs,        \* PersistentVolumeClaims labelled for each group: set of names
  clr,         \* position of ClearResources: eCGs, clearCGs, the loop running
  last         \* what the last handler step did (calls, events, result)

clVars == <<svc, pvcs, clr>>
cgVars == <<cgSpec, cgStatuses, health, sts, backends, syncIdx, ucs, svc, pvcs, clr>>
feVars == <<feSpec, feSts, observers>>
vars == <<cgSpec, cgStatuses, health, sts, backends, syncIdx, ucs,
          feSpec, feSts, observers, svc, pvcs, clr, last>>

NoOp == [op |-> "none"]

(***************************************************************************)
(* Events handed to K8srecorder.                                           *)
(***************************************************************************)
EventWarning == "Warning"
EventNormal == "Normal"
Event(type, reason) == [Type |-> type, Reason |-> reason]

(***************************************************************************)
(* Compute groups: pure parts                                              *)
(***************************************************************************)

\* Phases that initialCGStatus carries over from the persisted entry.
KeptPhasesNoSuspended == {ScaleDownFailed, SuspendFailed, ResumeFailed, Scaling}
KeptPhasesAndReady ==
  {ScaleDownFailed, Suspended, SuspendFailed, ResumeFailed, Scaling, Ready}
KeptPhases == {ScaleDownFailed, Suspended, SuspendFailed, ResumeFailed, Scaling}

\* Index of the first status entry of uniqueId, 0 when there is none.
StatusIndex(cgss, uniqueId) ==
  IF \E i \in 1..Len(cgss) : cgss[i].UniqueId = uniqueId
    THEN CHOOSE i \in 1..Len(cgss) :
           /\ cgss[i].UniqueId = uniqueId
           /\ \A j \in 1..(i - 1) : cgss[j].UniqueId # uniqueId
    ELSE 0

initialCGStatusAppend(cgss, cg) ==
  Append(cgss, [UniqueId |-> cg.UniqueId, Phase |-> Reconciling,
                Replicas |-> cg.Replicas, AvailableReplicas |-> 0,
                SuspendReplicas |-> 0])

\* initialCGStatus: the entry of cg is rewritten wholesale, or appended.
initialCGStatus(cgss, cg) ==
  LET i == StatusIndex(cgss, cg.UniqueId)
      defaultStatus == [UniqueId |-> cg.UniqueId,
                        Phase |-> Reconciling,
                        Replicas |-> cg.Replicas,
                        AvailableReplicas |-> 0,
                        SuspendReplicas |-> 0]
  IN IF i = 0
       THEN Append(cgss, defaultStatus)
       ELSE [cgss EXCEPT ![i] =
               [defaultStatus EXCEPT
                  !.Phase = IF cgss[i].Phase \in KeptPhases
                              THEN cgss[i].Phase ELSE Reconciling,
                  !.SuspendReplicas = cgss[i].SuspendReplicas]]

getScaleTypeFailedOnly(stReplicas, estReplicas, phase) ==
  IF phase = ScaleDownFailed THEN "scaleDown" ELSE ""

getScaleTypeLe(stReplicas, estReplicas, phase) ==
  IF stReplicas <= estReplicas \/ phase = ScaleDownFailed THEN "scaleDown" ELSE ""

getScaleType(stReplicas, estReplicas, phase) ==
  IF stReplicas < estReplicas \/ phase = ScaleDownFailed THEN "scaleDown" ELSE ""

\* masterDBClient.DropBE: the nodes leave the FE's backend list, or the call fails.
DropBE(allBackends, dropNodes, ok) ==
  IF ok THEN allBackends \ dropNodes ELSE allBackends

DropNodesKeepFirst(allBackends, cgKeepAmount) ==
  {node \in allBackends :
     Atoi(node) >= (IF cgKeepAmount = 0 THEN 1 ELSE cgKeepAmount)}

DropNodesOffByOne(allBackends, cgKeepAmount) ==
  {node \in allBackends : Atoi(node) > cgKeepAmount}

\* The loop of scaledOutBENodesBySQL over allBackends (no host fails to parse).
DropNodes(allBackends, cgKeepAmount) ==
  {node \in allBackends : Atoi(node) >= cgKeepAmount}

scaledOutBENodesBySQLSwallow(allBackends, cgKeepAmount, in) ==
  LET res(err, fetched, calls, left) ==
        [err |-> err, conn |-> 1, fetched |-> fetched,
         dropCalls |-> calls, left |-> left]
      dropNodes == DropNodes(allBackends, cgKeepAmount)
  IN IF ~in.connOk \/ ~in.fetchOk THEN res(FALSE, FALSE, <<>>, allBackends)
     ELSE IF \E node \in allBackends : Atoi(node) < 0
       THEN res(TRUE, TRUE, <<>>, allBackends)
     ELSE IF dropNodes = {} THEN res(FALSE, TRUE, <<>>, allBackends)
     ELSE res(FALSE, TRUE, <<dropNodes>>, DropBE(allBackends, dropNodes, in.dropOk))

(***************************************************************************)
(* scaledOutBENodesBySQL. in.connOk, in.fetchOk, in.dropOk: whether        *)
(* NewDorisMasterSqlDB, GetBackendsByCGName and DropBE succeed.            *)
(* Result: err, the connections opened, whether the backends were fetched, *)
(* the DropBE calls made (the node set of each), the backends left.        *)
(***************************************************************************)
scaledOutBENodesBySQL(allBackends, cgKeepAmount, in) ==
  LET res(err, fetched, calls, left) ==
        [err |-> err, conn |-> 1, fetched |-> fetched,
         dropCalls |-> calls, left |-> left]
  IN IF ~in.connOk THEN res(TRUE, FALSE, <<>>, allBackends)
     ELSE IF ~in.fetchOk THEN res(TRUE, FALSE, <<>>, allBackends)
     ELSE IF \E node \in allBackends : Atoi(node) < 0
       THEN res(TRUE, TRUE, <<>>, allBackends)
     ELSE LET dropNodes == DropNodes(allBackends, cgKeepAmount)
          IN IF dropNodes = {} THEN res(FALSE, TRUE, <<>>, allBackends)
             ELSE res(~in.dropOk, TRUE, <<dropNodes>>,
                      DropBE(allBackends, dropNodes, in.dropOk))

NoDrain == [err |-> FALSE, conn |-> 0, fetched |-> FALSE, dropCalls |-> <<>>]

\* k8s.ApplyStatefulSet / k8s.CreateClientObject: on success the StatefulSet
\* carries the replica count of the new one; on failure it is left as it was.
ApplyStatefulSet(stReplicas, estReplicas, ok) ==
  IF ok THEN stReplicas ELSE estReplicas

reconcileStatefulsetDrainFirst(cgss, cg, est, allBackends, in) ==
  LET i == StatusIndex(cgss, cg.UniqueId)
      scaleType == getScaleType(cg.Replicas, est, cgss[i].Phase)
      drain == IF scaleType = "scaleDown"
                 THEN scaledOutBENodesBySQL(allBackends, cg.Replicas, in)
                 ELSE [NoDrain EXCEPT !.err = FALSE] @@ [left |-> allBackends]
      phase == IF scaleType # "scaleDown" THEN cgss[i].Phase
               ELSE IF drain.err THEN ScaleDownFailed ELSE Scaling
      d == [err |-> drain.err, conn |-> drain.conn, fetched |-> drain.fetched,
            dropCalls |-> drain.dropCalls]
      ret(statuses, st, left, events, err, type, applied, dr) ==
        [cgss |-> statuses, sts |-> st, left |-> left, events |-> events,
         err |-> err, scaleType |-> type, applied |-> applied, drain |-> dr]
  IN IF in.getErr
       THEN ret(cgss, est, allBackends, <<>>, TRUE, "", FALSE, NoDrain)
     ELSE IF est = NoSts
       THEN IF in.createOk
              THEN ret(cgss, ApplyStatefulSet(cg.Replicas, est, TRUE), allBackends,
                       <<>>, FALSE, "", FALSE, NoDrain)
              ELSE ret(cgss, est, allBackends,
                       <<Event(EventWarning, "CGCreateResourceFailed")>>,
                       TRUE, "", FALSE, NoDrain)
     ELSE IF drain.err
       THEN ret([cgss EXCEPT ![i].Phase = phase], est, drain.left,
                <<Event(EventWarning, "CGSqlExecFailed")>>,
                TRUE, scaleType, FALSE, d)
     ELSE IF ~in.applyOk
       THEN ret([cgss EXCEPT ![i].Phase = phase],
                ApplyStatefulSet(cg.Replicas, est, FALSE), drain.left,
                <<Event(EventWarning, "CGApplyResourceFailed")>>,
                TRUE, scaleType, FALSE, d)
     ELSE ret([cgss EXCEPT ![i].Phase = phase],
              ApplyStatefulSet(cg.Replicas, est, TRUE), drain.left,
              <<>>, FALSE, scaleType, TRUE, d)

(***************************************************************************)
(* reconcileStatefulset for the group cg, whose status entry exists.       *)
(* est: the replicas of the StatefulSet found, or NoSts. in.getErr: the    *)
(* Get fails with an error other than NotFound; in.createOk, in.applyOk.   *)
(***************************************************************************)
reconcileStatefulset(cgss, cg, est, allBackends, in) ==
  LET i == StatusIndex(cgss, cg.UniqueId)
      scaleType == getScaleType(cg.Replicas, est, cgss[i].Phase)
      drain == scaledOutBENodesBySQL(allBackends, cg.Replicas, in)
      ret(statuses, st, left, events, err, type, applied, d) ==
        [cgss |-> statuses, sts |-> st, left |-> left, events |-> events,
         err |-> err, scaleType |-> type, applied |-> applied, drain |-> d]
  IN IF in.getErr
       THEN ret(cgss, est, allBackends, <<>>, TRUE, "", FALSE, NoDrain)
     ELSE IF est = NoSts
       THEN IF in.createOk
              THEN ret(cgss, ApplyStatefulSet(cg.Replicas, est, TRUE), allBackends,
                       <<>>, FALSE, "", FALSE, NoDrain)
              ELSE ret(cgss, est, allBackends,
                       <<Event(EventWarning, "CGCreateResourceFailed")>>,
                       TRUE, "", FALSE, NoDrain)
     ELSE IF ~in.applyOk
       THEN ret(cgss, ApplyStatefulSet(cg.Replicas, est, FALSE), allBackends,
                <<Event(EventWarning, "CGApplyResourceFailed")>>,
                TRUE, scaleType, FALSE, NoDrain)
     ELSE IF scaleType = "scaleDown"
       THEN IF drain.err
              THEN ret([cgss EXCEPT ![i].Phase = ScaleDownFailed],
                       ApplyStatefulSet(cg.Replicas, est, TRUE), drain.left,
                       <<Event(EventWarning, "CGSqlExecFailed")>>,
                       TRUE, scaleType, TRUE, drain)
              ELSE ret([cgss EXCEPT ![i].Phase = Scaling],
                       ApplyStatefulSet(cg.Replicas, est, TRUE), drain.left,
                       <<>>, FALSE, scaleType, TRUE, drain)
     ELSE ret(cgss, ApplyStatefulSet(cg.Replicas, est, TRUE), allBackends,
              <<>>, FALSE, scaleType, TRUE, NoDrain)

(***************************************************************************)
(* computeGroupSync for the group cg0 of the specification. in.svcOk:      *)
(* DefaultReconcileService succeeds; in.svcEvent: it returns an event with *)
(* its error.                                                              *)
(***************************************************************************)
computeGroupSync(cgss0, cg0, est, allBackends, in) ==
  LET cg == IF cg0.Replicas = NilReplicas THEN [cg0 EXCEPT !.Replicas = 1] ELSE cg0
      cgss == initialCGStatus(cgss0, cg)
      r == reconcileStatefulset(cgss, cg, est, allBackends, in)
  IN IF ~in.svcOk
       THEN [cg |-> cg, cgss |-> cgss, sts |-> est, left |-> allBackends,
             events |-> IF in.svcEvent
                          THEN <<Event(EventWarning, "ServiceApplyedFailed")>>
                          ELSE <<>>,
             err |-> TRUE, scaleType |-> "", applied |-> FALSE, drain |-> NoDrain,
             reconciled |-> FALSE]
       ELSE [cg |-> cg, cgss |-> r.cgss, sts |-> r.sts, left |-> r.left,
             events |-> r.events, err |-> r.err, scaleType |-> r.scaleType,
             applied |-> r.applied, drain |-> r.drain, reconciled |-> TRUE]

validateDuplicatedNone(cgs) == <<>>

\* validateDuplicated: the identifiers that repeat an earlier one, in order.
validateDuplicated(cgs) ==
  SelectSeq([i \in 1..Len(cgs) |->
               IF \E j \in 1..(i - 1) : cgs[j].UniqueId = cgs[i].UniqueId
                 THEN cgs[i].UniqueId ELSE ""],
            LAMBDA u : u # "")

\* regexp.Match(compute_group_name_regex, uniqueId)
MatchRegex(uniqueId) == uniqueId \in CGIds

\* validateRegex: the identifiers that do not match, in order.
validateRegex(cgs) ==
  SelectSeq([i \in 1..Len(cgs) |-> cgs[i].UniqueId], LAMBDA u : ~MatchRegex(u))

\* validateComputeGroup: the event of the first failing validation, <<>> when valid.
validateComputeGroup(cgs) ==
  IF validateDuplicated(cgs) # <<>>
    THEN <<Event(EventWarning, "CGUniqueIdentifierDuplicate")>>
  ELSE IF validateRegex(cgs) # <<>>
    THEN <<Event(EventWarning, "CGUniqueIdentifierNotMatchRegex")>>
  ELSE <<>>

(***************************************************************************)
(* State                                                                   *)
(***************************************************************************)
\* The specifications the environment may put in place.
CGEntries(ids) ==
  [UniqueId : ids, Replicas : {NilReplicas} \cup 0..MaxReplicas]
\* Specifications of at most one group.
OneGroupSpecs(ids) == {<<>>} \cup {<<a>> : a \in CGEntries(ids)}

ClrIdle == [pc |-> "idle", eCGs |-> <<>>, clearCGs |-> <<>>, i |-> 0,
            done |-> [stsDeleted |-> {}, svcDeleted |-> {}, drained |-> {},
                      pvcDeleted |-> {}]]
Idle == syncIdx = 0 /\ ~ucs.active /\ clr = ClrIdle
UcsIdle == [active |-> FALSE, todo |-> {}, errChan |-> <<>>]

Init ==
  /\ cgSpec = <<>>
  /\ cgStatuses = <<>>
  /\ health = [CGCount |-> 0, CGFullAvailableCount |-> 0, CGAvailableCount |-> 0]
  /\ sts = [u \in CGIds |-> NoSts]
  /\ backends = [n \in CGNames |-> {}]
  /\ syncIdx = 0
  /\ ucs = UcsIdle
  /\ feSpec = [Replicas |-> NilReplicas, ElectionNumber |-> 1]
  /\ feSts = NoSts
  /\ observers = {}
  /\ svc = {}
  /\ pvcs = [u \in CGIds |-> {}]
  /\ clr = ClrIdle
  /\ last = NoOp

(***************************************************************************)
(* Environment of the compute groups                                       *)
(***************************************************************************)
\* The user edits the specification; a reconcile reads it when it starts.
UpdateSpec(pool) ==
  /\ Idle
  /\ \E s \in pool : s # cgSpec /\ cgSpec' = s
  /\ last' = NoOp
  /\ UNCHANGED <<cgStatuses, health, sts, backends, syncIdx, ucs>>
  /\ UNCHANGED feVars
  /\ UNCHANGED clVars

\* A backend pod of the group's StatefulSet registers itself in the FE; a host
\* whose first label does not end in "-<ordinal>" is registered as BadHost.
BackendRegisterOn(hosts) ==
  /\ \E u \in CGIds, h \in hosts :
       /\ sts[u] # NoSts
       /\ h = BadHost \/ Atoi(h) < sts[u]
       /\ h \notin backends[CGName(u)]
       /\ backends' = [backends EXCEPT ![CGName(u)] = @ \cup {h}]
  /\ last' = NoOp
  /\ UNCHANGED <<cgSpec, cgStatuses, health, sts, syncIdx, ucs>>
  /\ UNCHANGED feVars
  /\ UNCHANGED clVars

BackendRegister == BackendRegisterOn(BEHosts)

(***************************************************************************)
(* Sync                                                                    *)
(***************************************************************************)
\* Sync up to its loop: the empty specification, feAvailable, validation.
SyncBeginOn(availability) ==
  /\ Idle
  /\ \E feAvailable \in availability :
       LET ret(events, err, entered, fe) ==
             [op |-> "Sync", events |-> events, err |-> err, entered |-> entered,
              fe |-> fe]
       IN IF Len(cgSpec) = 0
            THEN /\ last' = ret(<<Event(EventWarning, "ComputeGroupsEmpty")>>,
                                FALSE, FALSE, "unchecked")
                 /\ syncIdx' = 0
          ELSE IF ~feAvailable
            THEN /\ last' = ret(<<Event(EventNormal, "WaitFEAvailable")>>,
                                FALSE, FALSE, "unavailable")
                 /\ syncIdx' = 0
          ELSE IF validateComputeGroup(cgSpec) # <<>>
            THEN /\ last' = ret(validateComputeGroup(cgSpec), TRUE, FALSE, "available")
                 /\ syncIdx' = 0
          ELSE /\ last' = ret(<<>>, FALSE, TRUE, "available")
               /\ syncIdx' = 1
  /\ UNCHANGED <<cgSpec, cgStatuses, health, sts, backends, ucs>>
  /\ UNCHANGED feVars
  /\ UNCHANGED clVars

\* The calls of one computeGroupSync run in a fixed order and the first failure
\* ends it: an input names the call that fails, "" when none does.
\*   svc, svcEvent: DefaultReconcileService (without, with an event);
\*   get: Get of the StatefulSet (not NotFound); write: create or apply;
\*   conn, fetch, drop: NewDorisMasterSqlDB, GetBackendsByCGName, DropBE.
FailPoints == {"", "svc", "svcEvent", "get", "write", "conn", "fetch", "drop"}
SyncInput(fail) ==
  [fail |-> fail,
   svcOk |-> fail \notin {"svc", "svcEvent"}, svcEvent |-> fail = "svcEvent",
   getErr |-> fail = "get", createOk |-> fail # "write", applyOk |-> fail # "write",
   connOk |-> fail # "conn", fetchOk |-> fail # "fetch", dropOk |-> fail # "drop"]
SyncBegin == SyncBeginOn(BOOLEAN)

SyncInputs == {SyncInput(fail) : fail \in FailPoints}

NextGroupStopOnError(i, n, err) == IF err \/ i = n THEN 0 ELSE i + 1

\* Sync's loop "for i := range cgs": the position after computeGroupSync of
\* cgs[i] returned err, n groups in all; 0 once the loop is over. The error is
\* logged and recorded as an event, the loop neither breaks nor returns on it.
NextGroup(i, n, err) == IF i = n THEN 0 ELSE i + 1

\* One pass of Sync's loop: computeGroupSync of cgs[syncIdx] and the event Sync
\* records for it; after the last group Sync returns nil.
SyncGroupOn(inputs) ==
  /\ syncIdx \in 1..Len(cgSpec)
  /\ \E in \in inputs :
       LET cg0 == cgSpec[syncIdx]
           name == CGName(cg0.UniqueId)
           i0 == StatusIndex(cgStatuses, cg0.UniqueId)
           r == computeGroupSync(cgStatuses, cg0, sts[cg0.UniqueId], backends[name], in)
           i == StatusIndex(r.cgss, cg0.UniqueId)
       IN /\ cgSpec' = [cgSpec EXCEPT ![syncIdx] = r.cg]
          /\ cgStatuses' = r.cgss
          /\ sts' = [sts EXCEPT ![cg0.UniqueId] = r.sts]
          /\ backends' = [backends EXCEPT ![name] = r.left]
          /\ svc' = IF in.svcOk THEN svc \cup {cg0.UniqueId} ELSE svc
          /\ last' = [op |-> "computeGroupSync",
                      uniqueId |-> cg0.UniqueId,
                      keep |-> r.cg.Replicas,
                      est |-> sts[cg0.UniqueId],
                      phase0 |-> IF i0 = 0 THEN "" ELSE cgStatuses[i0].Phase,
                      phase1 |-> initialCGStatus(cgStatuses, r.cg)[i].Phase,
                      phase |-> r.cgss[i].Phase,
                      reconciled |-> r.reconciled,
                      scaleType |-> r.scaleType,
                      applied |-> r.applied,
                      live |-> backends[name],
                      conn |-> r.drain.conn,
                      fetched |-> r.drain.fetched,
                      dropCalls |-> r.drain.dropCalls,
                      drainErr |-> r.drain.err,
                      drainFail |-> IF r.drain.conn = 1 THEN in.fail ELSE "",
                      err |-> r.err,
                      events |-> IF r.err THEN r.events ELSE <<>>]
          /\ syncIdx' = NextGroup(syncIdx, Len(cgSpec), r.err)
  /\ UNCHANGED <<health, ucs, pvcs, clr>>
  /\ UNCHANGED feVars

SyncGroup == SyncGroupOn(SyncInputs)

(***************************************************************************)
(* UpdateComponentStatus                                                   *)
(***************************************************************************)
updateCGStatusWritesReplicas(cgs, listOk, availableReplicas) ==
  IF ~listOk THEN cgs
  ELSE [cgs EXCEPT
          !.AvailableReplicas = availableReplicas,
          !.Replicas = availableReplicas,
          !.Phase = Ready]

updateCGStatusKeepFailed(cgs, listOk, availableReplicas) ==
  IF ~listOk THEN cgs
  ELSE [cgs EXCEPT
          !.AvailableReplicas = availableReplicas,
          !.Phase = IF availableReplicas = cgs.Replicas /\ cgs.Phase # ScaleDownFailed
                      THEN Ready ELSE @]

\* updateCGStatus on one entry. listOk: the pod List succeeds;
\* availableReplicas: the number of listed pods that are ready.
updateCGStatus(cgs, listOk, availableReplicas) ==
  IF ~listOk THEN cgs
  ELSE [cgs EXCEPT
          !.AvailableReplicas = availableReplicas,
          !.Phase = IF availableReplicas = cgs.Replicas THEN Ready ELSE @]

\* UpdateComponentStatus up to wg.Wait(): one goroutine per status entry.
UCSBegin ==
  /\ Idle
  /\ IF Len(cgStatuses) = 0
       THEN /\ ucs' = ucs
            /\ last' = [op |-> "UpdateComponentStatus", err |-> FALSE,
                        joined |-> FALSE, results |-> <<>>]
       ELSE /\ ucs' = [active |-> TRUE, todo |-> 1..Len(cgStatuses), errChan |-> <<>>]
            /\ last' = NoOp
  /\ UNCHANGED <<cgSpec, cgStatuses, health, sts, backends, syncIdx>>
  /\ UNCHANGED feVars
  /\ UNCHANGED clVars

\* The goroutine of index idx: updateCGStatus(ddc, &cgss[idx]), its result sent
\* on errChan (buffered with len(cgss) slots), wg.Done().
UCSTaskOn(readyCounts) ==
  /\ ucs.active
  /\ \E idx \in ucs.todo, listOk \in BOOLEAN, availableReplicas \in readyCounts :
       /\ sts[cgStatuses[idx].UniqueId] = NoSts => availableReplicas = 0
       /\ cgStatuses' = [cgStatuses EXCEPT
                           ![idx] = updateCGStatus(@, listOk, availableReplicas)]
       /\ ucs' = [ucs EXCEPT !.todo = @ \ {idx},
                             !.errChan = Append(@, ~listOk)]
       /\ last' = [op |-> "updateCGStatus", idx |-> idx, listOk |-> listOk,
                   availableReplicas |-> availableReplicas,
                   phase0 |-> cgStatuses[idx].Phase]
  /\ UNCHANGED <<cgSpec, health, sts, backends, syncIdx>>
  /\ UNCHANGED feVars
  /\ UNCHANGED clVars

UCSTask == UCSTaskOn(0..MaxReplicas)

\* The counting loop of UpdateComponentStatus over the status list.
FullAvailableCount(cgss) ==
  Cardinality({i \in 1..Len(cgss) : cgss[i].Phase = Ready})
AvailableCount(cgss) ==
  Cardinality({i \in 1..Len(cgss) : cgss[i].AvailableReplicas > 0})

ErrMsFirst(errChan) == Len(errChan) > 0 /\ errChan[1]

\* errMs != "": some result drained from errChan is an error (the error of a
\* failed List carries a message).
ErrMs(errChan) == \E k \in 1..Len(errChan) : errChan[k]

\* After wg.Wait(): the errors are drained and the counters recomputed.
UCSJoin ==
  /\ ucs.active
  /\ ucs.todo = {}
  /\ health' = [CGCount |-> Len(cgStatuses),
                CGFullAvailableCount |-> FullAvailableCount(cgStatuses),
                CGAvailableCount |-> AvailableCount(cgStatuses)]
  /\ last' = [op |-> "UpdateComponentStatus", err |-> ErrMs(ucs.errChan),
              joined |-> TRUE, results |-> ucs.errChan]
  /\ ucs' = UcsIdle
  /\ UNCHANGED <<cgSpec, cgStatuses, sts, backends, syncIdx>>
  /\ UNCHANGED feVars
  /\ UNCHANGED clVars

NextCG ==
  \/ UpdateSpec(OneGroupSpecs({"cg_2"}))
  \/ BackendRegister
  \/ SyncBegin
  \/ SyncGroup
  \/ UCSBegin
  \/ UCSTask
  \/ UCSJoin

Spec == Init /\ [][NextCG]_vars

(***************************************************************************)
(* Storage reclamation: ClearStatefulsetUnusedPVCs                         *)
(***************************************************************************)
\* Largest number of storage paths a group's configuration names.
MaxPaths == 1

\* strconv.Itoa of an ordinal or a path index
Itoa(i) == <<DigitChars[i + 1]>>

LogStoreName == <<"be-log">>
StorageStorePreName == "be-storage"
\* StorageStorePreName + jStr
StorageStoreName(j) == <<StorageStorePreName>> \o Itoa(j)

\* ddc.GetCGStatefulsetName(cg): built from the group's name
GetCGStatefulsetName(uniqueId) == CGName(uniqueId)

\* resource.BuildPVCName: volume name, StatefulSet name and ordinal, joined
BuildPVCName(stsName, ordinal, volumeName) == volumeName \o <<stsName>> \o ordinal

\* A claim the StatefulSet controller never names, carrying the group's labels.
StrayPVC(uniqueId) == <<"stray", GetCGStatefulsetName(uniqueId)>>

\* The claims that can carry the labels of a group.
PVCNames(uniqueId) ==
  {BuildPVCName(GetCGStatefulsetName(uniqueId), Itoa(i), v) :
     i \in 0..(MaxReplicas - 1),
     v \in {LogStoreName} \cup {StorageStoreName(j) : j \in 0..(MaxPaths - 1)}}
  \cup {StrayPVC(uniqueId)}

\* The group of the specification with this identifier: the loop does not
\* break, so the last match is taken; 0 when there is none (cg == nil).
SpecIndex(cgs, uniqueId) ==
  IF \E k \in 1..Len(cgs) : cgs[k].UniqueId = uniqueId
    THEN CHOOSE k \in 1..Len(cgs) :
           /\ cgs[k].UniqueId = uniqueId
           /\ \A m \in (k + 1)..Len(cgs) : cgs[m].UniqueId # uniqueId
    ELSE 0

ReservePVCNamesInclusive(stsName, replicas, paths) ==
  {BuildPVCName(stsName, Itoa(i), LogStoreName) : i \in 0..replicas}
  \cup {BuildPVCName(stsName, Itoa(i), StorageStoreName(j)) :
          i \in 0..replicas, j \in 0..(paths - 1)}

\* reservePVCNameList, as a set
ReservePVCNames(stsName, replicas, paths) ==
  {BuildPVCName(stsName, Itoa(i), LogStoreName) : i \in 0..(replicas - 1)}
  \cup {BuildPVCName(stsName, Itoa(i), StorageStoreName(j)) :
          i \in 0..(replicas - 1), j \in 0..(paths - 1)}

DeletePVCsStopAtFailure(claims, failing) ==
  IF claims \cap failing = {}
    THEN [attempted |-> claims, failed |-> {}, left |-> {}]
    ELSE LET first == CHOOSE c \in claims \cap failing : TRUE
         IN [attempted |-> {first}, failed |-> {first}, left |-> claims]

\* The loop over pvcMap: k8s.DeletePVC of every claim left in the map; the
\* claims of `failing` are those whose deletion returns an error.
DeletePVCs(claims, failing) ==
  [attempted |-> claims,
   failed |-> claims \cap failing,
   left |-> claims \cap failing]

\* utils.MergeError over the failed deletions: nil when there is none
MergeError(failed) == failed # {}

(***************************************************************************)
(* ClearStatefulsetUnusedPVCs for the status entry cgs. listed: the claims *)
(* the List returns; in.listOk: the List succeeds; in.paths: the number of *)
(* storage paths of the configuration; in.failing: the claims whose        *)
(* deletion fails. Result: err, whether *cg.Replicas dereferenced nil, the *)
(* warning events, the retain set applied (reserve), the deletions         *)
(* attempted and failed, the claims left.                                  *)
(***************************************************************************)
ClearStatefulsetUnusedPVCs(cgs, cgSpecs, listed, in) ==
  LET k == SpecIndex(cgSpecs, cgs.UniqueId)
      ret(err, panic, events, skipped, reserve, d, left) ==
        [err |-> err, panic |-> panic, events |-> events, skipped |-> skipped,
         reserve |-> reserve, attempted |-> d.attempted, failed |-> d.failed,
         left |-> left]
      none == [attempted |-> {}, failed |-> {}]
      reserve == IF k = 0 THEN {}
                 ELSE ReservePVCNames(GetCGStatefulsetName(cgs.UniqueId),
                                      cgSpecs[k].Replicas, in.paths)
      d == DeletePVCs(listed \ reserve, in.failing)
  IN IF ~in.listOk
       THEN ret(TRUE, FALSE, <<Event(EventWarning, "PVCListFailed")>>, FALSE,
                {}, none, listed)
     ELSE IF k # 0 /\ cgSpecs[k].Replicas = NilReplicas
       THEN ret(FALSE, TRUE, <<>>, FALSE, {}, none, listed)
     ELSE IF /\ k # 0
             /\ \/ cgs.Phase \in {Suspended, SuspendFailed}
                \/ cgSpecs[k].Replicas = 0
       THEN ret(FALSE, FALSE, <<>>, TRUE, {}, none, listed)
     ELSE ret(MergeError(d.failed), FALSE,
              [n \in 1..Cardinality(d.failed) |->
                 Event(EventWarning, "PVCDeleteFailed")],
              FALSE, reserve, d, (listed \cap reserve) \cup d.left)

(***************************************************************************)
(* ClearResources                                                          *)
(***************************************************************************)
InSpec(cgs, uniqueId) == \E k \in 1..Len(cgs) : cgs[k].UniqueId = uniqueId

\* The first loop of ClearResources: the entries of groups in the
\* specification (eCGs) and of the others (clearCGs), each in status order.
ExistingCGs(cgss, cgs) == SelectSeq(cgss, LAMBDA e : InSpec(cgs, e.UniqueId))
ClearCGs(cgss, cgs) == SelectSeq(cgss, LAMBDA e : ~InSpec(cgs, e.UniqueId))

\* What a pass has done so far: the identifiers whose StatefulSet and Service
\* deletion succeeded, those drained, the claims deleted for each identifier.
NoClearing ==
  [stsDeleted |-> {}, svcDeleted |-> {}, drained |-> {}, pvcDeleted |-> {}]

\* The loops of ClearResources follow each other: a loop without entries left
\* is passed over.
ClrAt(eCGs, clearCGs, pc, i, done) ==
  LET c == [pc |-> pc, eCGs |-> eCGs, clearCGs |-> clearCGs, i |-> i, done |-> done]
      calls == Len(eCGs) + Len(clearCGs)
  IN IF pc = "delete" /\ i <= Len(clearCGs) THEN c
     ELSE IF (pc = "delete" /\ calls > 0) \/ (pc = "pvc" /\ i <= calls)
       THEN [c EXCEPT !.pc = "pvc", !.i = IF pc = "pvc" THEN i ELSE 1]
     ELSE [c EXCEPT !.pc = "end", !.i = 0]

\* ClearResources up to its second loop.
ClearBegin ==
  /\ Idle
  /\ clr' = ClrAt(ExistingCGs(cgStatuses, cgSpec), ClearCGs(cgStatuses, cgSpec),
                  "delete", 1, NoClearing)
  /\ last' = NoOp
  /\ UNCHANGED <<cgSpec, cgStatuses, health, sts, backends, syncIdx, ucs, svc, pvcs>>
  /\ UNCHANGED feVars

\* The calls of one pass of the second loop: in.fail names the one that fails;
\* "stsSvc": both deletions fail.
ClearFailPoints == {"", "sts", "svc", "stsSvc", "conn", "fetch", "drop"}
ClearInput(fail) ==
  [fail |-> fail,
   delStsOk |-> fail \notin {"sts", "stsSvc"}, delSvcOk |-> fail \notin {"svc", "stsSvc"},
   connOk |-> fail # "conn", fetchOk |-> fail # "fetch", dropOk |-> fail # "drop"]
ClearInputs == {ClearInput(fail) : fail \in ClearFailPoints}

\* k8s.DeleteStatefulset / k8s.DeleteService: the resource is gone on success.
DeleteStatefulset(est, ok) == IF ok THEN NoSts ELSE est
DeleteService(services, uniqueId, ok) == IF ok THEN services \ {uniqueId} ELSE services

ClearedEither(delStsOk, delSvcOk) == delStsOk \/ delSvcOk

\* cleared: neither deletion has returned an error
Cleared(delStsOk, delSvcOk) == delStsOk /\ delSvcOk

\* One pass of the second loop: the StatefulSet and the Service of
\* clearCGs[i] are deleted, then its backends are dropped, or the entry is
\* appended to eCGs.
ClearDeleteOn(inputs) ==
  /\ clr.pc = "delete"
  /\ \E in \in inputs :
       LET cgs == clr.clearCGs[clr.i]
           u == cgs.UniqueId
           cgName == CGName(u)
           cleared == Cleared(in.delStsOk, in.delSvcOk)
           drain == scaledOutBENodesBySQL(backends[cgName], 0, in)
           events ==
             (IF in.delStsOk THEN <<>>
              ELSE <<Event(EventWarning, "CGStatefulsetDeleteFailed")>>)
             \o (IF in.delSvcOk THEN <<>>
                 ELSE <<Event(EventWarning, "CGServiceDeleteFailed")>>)
             \o (IF cleared /\ drain.err
                   THEN <<Event(EventWarning, "CGSqlExecFailed")>> ELSE <<>>)
       IN /\ sts' = [sts EXCEPT ![u] = DeleteStatefulset(@, in.delStsOk)]
          /\ svc' = DeleteService(svc, u, in.delSvcOk)
          /\ backends' = [backends EXCEPT ![cgName] = IF cleared THEN drain.left ELSE @]
          /\ clr' = ClrAt(IF cleared THEN clr.eCGs ELSE Append(clr.eCGs, cgs),
                          clr.clearCGs, "delete", clr.i + 1,
                          [clr.done EXCEPT
                             !.stsDeleted = IF in.delStsOk THEN @ \cup {u} ELSE @,
                             !.svcDeleted = IF in.delSvcOk THEN @ \cup {u} ELSE @,
                             !.drained = IF cleared THEN @ \cup {u} ELSE @])
          /\ last' = [op |-> "ClearResources.delete", uniqueId |-> u,
                      fail |-> in.fail, cleared |-> cleared,
                      live |-> backends[cgName],
                      keep |-> 0,
                      conn |-> IF cleared THEN drain.conn ELSE 0,
                      dropCalls |-> IF cleared THEN drain.dropCalls ELSE <<>>,
                      drainErr |-> cleared /\ drain.err,
                      events |-> events]
  /\ UNCHANGED <<cgSpec, cgStatuses, health, syncIdx, ucs, pvcs>>
  /\ UNCHANGED feVars

ClearDelete == ClearDeleteOn(ClearInputs)

\* What the List and the DeletePVC calls of one ClearStatefulsetUnusedPVCs do.
PVCInputs(listed) ==
  [listOk : BOOLEAN, paths : 0..MaxPaths,
   failing : {{}, listed} \cup {{c} : c \in listed}]

\* One call of the third and fourth loops: ClearStatefulsetUnusedPVCs of
\* eCGs[i], then of clearCGs[i - len(eCGs)]. A nil dereference ends the pass
\* before ddc.Status.ComputeGroupStatuses is assigned.
ClearPVC ==
  /\ clr.pc = "pvc"
  /\ LET cgs == (clr.eCGs \o clr.clearCGs)[clr.i]
         u == cgs.UniqueId
     IN \E in \in PVCInputs(pvcs[u]) :
          LET r == ClearStatefulsetUnusedPVCs(cgs, cgSpec, pvcs[u], in)
          IN /\ pvcs' = [pvcs EXCEPT ![u] = r.left]
             /\ clr' = IF r.panic THEN ClrIdle
                       ELSE ClrAt(clr.eCGs, clr.clearCGs, "pvc", clr.i + 1,
                                  [clr.done EXCEPT
                                     !.pvcDeleted = @ \cup
                                        {<<u, c>> : c \in r.attempted \ r.failed}])
             /\ last' = [op |-> "ClearStatefulsetUnusedPVCs", uniqueId |-> u,
                         phase |-> cgs.Phase,
                         specIndex |-> SpecIndex(cgSpec, u),
                         listed |-> pvcs[u], listOk |-> in.listOk,
                         paths |-> in.paths,
                         err |-> r.err, panic |-> r.panic, events |-> r.events,
                         skipped |-> r.skipped, reserve |-> r.reserve,
                         attempted |-> r.attempted, failed |-> r.failed]
  /\ UNCHANGED <<cgSpec, cgStatuses, health, sts, backends, syncIdx, ucs, svc>>
  /\ UNCHANGED feVars

\* ddc.Status.ComputeGroupStatuses = eCGs; return true, nil
ClearEnd ==
  /\ clr.pc = "end"
  /\ cgStatuses' = clr.eCGs
  /\ clr' = ClrIdle
  /\ last' = [op |-> "ClearResources", statuses0 |-> cgStatuses,
              clearCGs |-> clr.clearCGs, done |-> clr.done, err |-> FALSE]
  /\ UNCHANGED <<cgSpec, health, sts, backends, syncIdx, ucs, svc, pvcs>>
  /\ UNCHANGED feVars

(***************************************************************************)
(* One ClearResources pass from any cluster an earlier cycle can leave:    *)
(* a specification of at most two groups, a status list of at most one     *)
(* entry per identifier (the suspend phases included), the claims of the   *)
(* pods each StatefulSet has had.                                          *)
(***************************************************************************)
\* The claims of the first n pods of a StatefulSet configured with p paths.
ProvisionedPVCs(uniqueId, n, p) ==
  ReservePVCNames(GetCGStatefulsetName(uniqueId), n, p)

ClearSpecGroups(u) ==
  IF u = "cg1" THEN CGEntries({u}) ELSE [UniqueId : {u}, Replicas : {1}]
ClearSpecs ==
  {<<>>} \cup {<<a>> : a \in UNION {ClearSpecGroups(u) : u \in CGIds}}
         \cup {<<a, b>> : a \in ClearSpecGroups("cg1"), b \in ClearSpecGroups("cg_2")}

ClearStatusEntries(u) ==
  [UniqueId : {u},
   Phase : IF u = "cg1" THEN {Ready, Suspended, SuspendFailed} ELSE {Ready},
   Replicas : {1}, AvailableReplicas : {1}, SuspendReplicas : {0}]
ClearStatusLists ==
  {<<>>} \cup {<<a>> : a \in UNION {ClearStatusEntries(u) : u \in CGIds}}
         \cup {<<a, b>> : a \in ClearStatusEntries("cg1"), b \in ClearStatusEntries("cg_2")}
         \cup {<<b, a>> : a \in ClearStatusEntries("cg1"), b \in ClearStatusEntries("cg_2")}

ClearPVCSets(u) ==
  IF u = "cg1"
    THEN {ProvisionedPVCs(u, n, MaxPaths) : n \in 0..MaxReplicas}
         \cup {ProvisionedPVCs(u, MaxReplicas, MaxPaths) \cup {StrayPVC(u)}}
    ELSE {{}}

InitClear ==
  /\ cgSpec \in ClearSpecs
  /\ cgStatuses \in ClearStatusLists
  /\ health = [CGCount |-> 0, CGFullAvailableCount |-> 0, CGAvailableCount |-> 0]
  /\ sts = [u \in CGIds |-> IF StatusIndex(cgStatuses, u) = 0 THEN NoSts ELSE 1]
  /\ svc = {u \in CGIds : StatusIndex(cgStatuses, u) # 0}
  /\ backends = [n \in CGNames |->
                   IF \E u \in CGIds : CGName(u) = n /\ StatusIndex(cgStatuses, u) # 0
                     THEN {OrdHost(0)} ELSE {}]
  /\ pvcs \in [CGIds -> UNION {ClearPVCSets(u) : u \in CGIds}]
  /\ \A u \in CGIds :
       /\ pvcs[u] \in ClearPVCSets(u)
       /\ StatusIndex(cgStatuses, u) = 0 => pvcs[u] = {}
  /\ syncIdx = 0
  /\ ucs = UcsIdle
  /\ clr = ClrIdle
  /\ feSpec = [Replicas |-> NilReplicas, ElectionNumber |-> 1]
  /\ feSts = NoSts
  /\ observers = {}
  /\ last = NoOp

\* One pass: what a pass leaves behind is among the clusters InitClear draws.
NextClear ==
  \/ (last = NoOp /\ ClearBegin)
  \/ ClearDelete
  \/ ClearPVC
  \/ ClearEnd

SpecClear == InitClear /\ [][NextClear]_vars

(***************************************************************************)
(* UpdateComponentStatus on its own, from any status list of at most two   *)
(* entries and any counters an earlier cycle can have left.                *)
(***************************************************************************)
UCSStatusEntries(u) ==
  [UniqueId : {u}, Phase : {Reconciling, Ready, ScaleDownFailed},
   Replicas : 0..MaxReplicas, AvailableReplicas : 0..1, SuspendReplicas : {0}]
UCSStatusLists ==
  {<<>>} \cup {<<a>> : a \in UCSStatusEntries("cg1")}
         \cup {<<a, b>> : a \in UCSStatusEntries("cg1"), b \in UCSStatusEntries("cg_2")}

InitUCS ==
  /\ cgSpec = <<>>
  /\ cgStatuses \in UCSStatusLists
  /\ health \in {[CGCount |-> n, CGFullAvailableCount |-> n, CGAvailableCount |-> n] :
                   n \in {0, 2}}
  /\ sts = [u \in CGIds |-> IF StatusIndex(cgStatuses, u) = 0 THEN NoSts
                            ELSE MaxReplicas]
  /\ backends = [n \in CGNames |-> {}]
  /\ syncIdx = 0
  /\ ucs = UcsIdle
  /\ svc = {u \in CGIds : StatusIndex(cgStatuses, u) # 0}
  /\ pvcs = [u \in CGIds |-> {}]
  /\ clr = ClrIdle
  /\ feSpec = [Replicas |-> NilReplicas, ElectionNumber |-> 1]
  /\ feSts = NoSts
  /\ observers = {}
  /\ last = NoOp

NextUCS ==
  \/ UCSBegin
  \/ UCSTask
  \/ UCSJoin

SpecUCS == InitUCS /\ [][NextUCS]_vars

(***************************************************************************)
(* The three handlers of the compute groups together, on specifications of *)
(* up to two groups, the invalid ones included. No backend registers and   *)
(* no claim is provisioned here.                                           *)
(***************************************************************************)
ClusterGroup(u) == [UniqueId |-> u, Replicas |-> MaxReplicas]
ClusterSpecs ==
  {<<>>} \cup {<<ClusterGroup(u)>> : u \in CGIds \cup {BadId}}
         \cup {<<ClusterGroup("cg1"), ClusterGroup(u)>> : u \in CGIds \cup {BadId}}
ClusterSyncInputs == {SyncInput(fail) : fail \in {"", "svc"}}
ClusterClearInputs == {ClearInput(fail) : fail \in {"", "sts"}}

NextCluster ==
  \/ UpdateSpec(ClusterSpecs)
  \/ SyncBegin
  \/ SyncGroupOn(ClusterSyncInputs)
  \/ UCSBegin
  \/ UCSTaskOn({0, MaxReplicas})
  \/ UCSJoin
  \/ ClearBegin
  \/ ClearDeleteOn(ClusterClearInputs)
  \/ ClearPVC
  \/ ClearEnd

SpecCluster == Init /\ [][NextCluster]_vars

(***************************************************************************)
(* Groups that come and go: the user adds and removes groups of one        *)
(* replica, Sync creates them (FE available, no call failing), their       *)
(* backend registers, ClearResources tears the removed ones down with any  *)
(* of its calls failing, cycle after cycle.                                *)
(***************************************************************************)
RemovedGroup(u) == [UniqueId |-> u, Replicas |-> 1]
RemovedSpecs ==
  {<<>>} \cup {<<RemovedGroup(u)>> : u \in CGIds}
         \cup {<<RemovedGroup("cg1"), RemovedGroup("cg_2")>>}

NextRemoved ==
  \/ UpdateSpec(RemovedSpecs)
  \/ SyncBeginOn({TRUE})
  \/ SyncGroupOn({SyncInput("")})
  \/ BackendRegisterOn({OrdHost(0), BadHost})
  \/ ClearBegin
  \/ ClearDelete
  \/ ClearPVC
  \/ ClearEnd

SpecRemoved == Init /\ [][NextRemoved]_vars

(***************************************************************************)
(* One Sync pass over two groups, in either order, from the clusters an    *)
(* earlier cycle can leave: no group created yet, or both running with     *)
(* MaxReplicas pods, their backends registered (one of them possibly under *)
(* a host that does not parse), a drain of an earlier cycle failed or not. *)
(***************************************************************************)
PassGroups(u) == [UniqueId : {u}, Replicas : {1, MaxReplicas}]
PassSpecs ==
  {<<a, b>> : a \in PassGroups("cg1"), b \in PassGroups("cg_2")}
    \cup {<<b, a>> : a \in PassGroups("cg1"), b \in PassGroups("cg_2")}
PassStatusEntries(u) ==
  [UniqueId : {u}, Phase : {Ready, ScaleDownFailed},
   Replicas : {MaxReplicas}, AvailableReplicas : {MaxReplicas}, SuspendReplicas : {0}]
PassStatusLists ==
  {<<>>} \cup {<<a, b>> : a \in PassStatusEntries("cg1"), b \in PassStatusEntries("cg_2")}
PassBackends ==
  {{OrdHost(i) : i \in 0..(MaxReplicas - 1)},
   {OrdHost(i) : i \in 0..(MaxReplicas - 2)} \cup {BadHost}}

InitPass ==
  /\ cgSpec \in PassSpecs
  /\ cgStatuses \in PassStatusLists
  /\ health = [CGCount |-> 0, CGFullAvailableCount |-> 0, CGAvailableCount |-> 0]
  /\ sts = [u \in CGIds |-> IF cgStatuses = <<>> THEN NoSts ELSE MaxReplicas]
  /\ svc = IF cgStatuses = <<>> THEN {} ELSE CGIds
  /\ backends \in [CGNames -> PassBackends \cup {{}}]
  /\ \A n \in CGNames : backends[n] = {} <=> cgStatuses = <<>>
  /\ syncIdx = 0
  /\ ucs = UcsIdle
  /\ pvcs = [u \in CGIds |-> {}]
  /\ clr = ClrIdle
  /\ feSpec = [Replicas |-> NilReplicas, ElectionNumber |-> 1]
  /\ feSts = NoSts
  /\ observers = {}
  /\ last = NoOp

\* One pass: Sync is entered once and its loop runs to the end.
NextPass ==
  \/ (last = NoOp /\ SyncBegin)
  \/ SyncGroup

SpecPass == InitPass /\ [][NextPass]_vars

(***************************************************************************)
(* FE tier                                                                 *)
(***************************************************************************)
\* cluster.GetElectionNumber()
GetElectionNumber(spec) == spec.ElectionNumber

ClampNoop(replicas, ele) == replicas

wroaSwapped(replicas, oldReplicas) == oldReplicas - replicas

\* wroa: newReplicas - oldReplicas; the observers are dropped when it is negative.
wroa(replicas, oldReplicas) == replicas - oldReplicas

\* The clamp of prepareStatefulsetApply: a count below the election number is
\* replaced by it.
Clamp(replicas, ele) == IF replicas < ele THEN ele ELSE replicas

needRemovedNoQuorum(allObserves, replicas, electionNumber) ==
  Cardinality(allObserves) - replicas

\* needRemovedAmount = allobservers - (replicas - election)
needRemovedAmount(allObserves, replicas, electionNumber) ==
  Cardinality(allObserves) - replicas + electionNumber

\* mysql.BuildSeqNumberToFrontendMap: pod index -> frontend, kept as the set of
\* frontends (their pod index is Atoi); resolved = FALSE stands for its error.
BuildSeqNumberToFrontendMap(allObserves) ==
  IF \E fe \in allObserves : Atoi(fe) < 0
    THEN [resolved |-> FALSE, map |-> {}]
    ELSE [resolved |-> TRUE, map |-> allObserves]

\* mysql.FindNeedDeletedFrontends: the needRemoved frontends of highest pod
\* index, all of them when there are fewer.
FindNeedDeletedFrontends(frontendMap, needRemoved) ==
  IF needRemoved >= Cardinality(frontendMap) THEN frontendMap
  ELSE {fe \in frontendMap :
          Cardinality({o \in frontendMap : Atoi(o) > Atoi(fe)}) < needRemoved}

\* masterDBClient.DropObserver: the nodes leave the FE's list, or the call fails.
DropObserver(allObserves, observes, ok) ==
  IF ok THEN allObserves \ observes ELSE allObserves

(***************************************************************************)
(* dropObserverBySqlClient. in.connOk, in.fetchOk, in.dropOk: whether      *)
(* NewDorisMasterSqlDB, GetObservers and DropObserver succeed; in.fqdn:    *)
(* the start mode; in.podsOk: GetPods succeeds (IP mode).                  *)
(***************************************************************************)
dropObserverBySqlClient(allObserves, replicas, electionNumber, in) ==
  LET need == needRemovedAmount(allObserves, replicas, electionNumber)
      built == BuildSeqNumberToFrontendMap(allObserves)
      observes == FindNeedDeletedFrontends(built.map, need)
      res(err, fetched, n, calls, left) ==
        [err |-> err, conn |-> 1, fetched |-> fetched, needRemoved |-> n,
         dropCalls |-> calls, left |-> left]
  IN IF ~in.connOk THEN res(TRUE, FALSE, 0, <<>>, allObserves)
     ELSE IF ~in.fetchOk THEN res(TRUE, FALSE, 0, <<>>, allObserves)
     ELSE IF need <= 0 THEN res(FALSE, TRUE, need, <<>>, allObserves)
     ELSE IF ~in.fqdn /\ ~in.podsOk THEN res(FALSE, TRUE, need, <<>>, allObserves)
     ELSE IF ~built.resolved THEN res(FALSE, TRUE, need, <<>>, allObserves)
     ELSE res(~in.dropOk, TRUE, need, <<observes>>,
              DropObserver(allObserves, observes, in.dropOk))

FEFailPoints == {"", "get", "conn", "fetch", "pods", "drop"}
FEInput(fail, fqdn) ==
  [getOk |-> fail # "get", connOk |-> fail # "conn", fetchOk |-> fail # "fetch",
   podsOk |-> fail # "pods", dropOk |-> fail # "drop", fqdn |-> fqdn]
FEInputs == {FEInput(fail, fqdn) : fail \in FEFailPoints, fqdn \in BOOLEAN}

\* prepareStatefulsetApply. in.getOk: the Get of the FE StatefulSet succeeds.
prepareStatefulsetApply ==
  /\ \E in \in FEInputs :
         LET specified == IF feSpec.Replicas = NilReplicas THEN 0 ELSE feSpec.Replicas
             ele == GetElectionNumber(feSpec)
             replicas == Clamp(specified, ele)
             delta == wroa(replicas, feSts)
             d == dropObserverBySqlClient(observers, replicas, ele, in)
             ret(clampRun, events, drained, r) ==
               [op |-> "prepareStatefulsetApply", clampRun |-> clampRun,
                specified |-> specified, ele |-> ele,
                replicas |-> IF clampRun THEN replicas ELSE feSpec.Replicas,
                old |-> feSts, events |-> events, drained |-> drained,
                live |-> observers, conn |-> r.conn, fetched |-> r.fetched,
                needRemoved |-> r.needRemoved, dropCalls |-> r.dropCalls, err |-> r.err,
           podsFailed |-> drained /\ ~in.fqdn /\ ~in.podsOk]
             none == [err |-> FALSE, conn |-> 0, fetched |-> FALSE, needRemoved |-> 0,
                      dropCalls |-> <<>>]
             warn == IF specified < ele
                       THEN <<Event(EventWarning, "FESpecSetError")>> ELSE <<>>
         IN IF feSts = NoSts \/ ~in.getOk
              THEN /\ last' = ret(FALSE, <<>>, FALSE, none)
                   /\ UNCHANGED <<feSpec, observers>>
            ELSE /\ feSpec' = [feSpec EXCEPT !.Replicas = replicas]
                 /\ IF delta < 0
                      THEN /\ observers' = d.left
                           /\ last' = ret(TRUE, warn, TRUE, d)
                      ELSE /\ observers' = observers
                           /\ last' = ret(TRUE, warn, FALSE, none)
  /\ UNCHANGED feSts
  /\ UNCHANGED cgVars

(***************************************************************************)
(* Environment of the FE tier                                              *)
(***************************************************************************)
\* The user edits the FE specification.
UpdateFESpec ==
  /\ \E r \in {NilReplicas} \cup 0..MaxFeReplicas, e \in 1..MaxElection :
       /\ [Replicas |-> r, ElectionNumber |-> e] # feSpec
       /\ feSpec' = [Replicas |-> r, ElectionNumber |-> e]
  /\ last' = NoOp
  /\ UNCHANGED <<feSts, observers>>
  /\ UNCHANGED cgVars

\* The FE StatefulSet is created or updated with the specification's count.
FEStatefulSetApplied ==
  /\ feSpec.Replicas # NilReplicas
  /\ feSts # feSpec.Replicas
  /\ feSts' = feSpec.Replicas
  /\ last' = NoOp
  /\ UNCHANGED <<feSpec, observers>>
  /\ UNCHANGED cgVars

\* An FE pod joins as an observer.
ObserverRegister ==
  /\ \E h \in FEHosts :
       /\ feSts # NoSts
       /\ h = BadHost \/ Atoi(h) < feSts
       /\ h \notin observers
       /\ observers' = observers \cup {h}
  /\ last' = NoOp
  /\ UNCHANGED <<feSpec, feSts>>
  /\ UNCHANGED cgVars

NextFE ==
  \/ UpdateFESpec
  \/ FEStatefulSetApplied
  \/ ObserverRegister
  \/ prepareStatefulsetApply

SpecFE == Init /\ [][NextFE]_vars

(***************************************************************************)
(* initialCGStatus on its own: any persisted status list (one entry per    *)
(* identifier, any phase, the suspend/resume ones included) and any group. *)
(***************************************************************************)
StatusEntries(u) ==
  [UniqueId : {u}, Phase : Phases, Replicas : 0..MaxReplicas,
   AvailableReplicas : 0..1, SuspendReplicas : 0..1]
StatusLists ==
  {<<>>} \cup {<<a>> : a \in UNION {StatusEntries(u) : u \in CGIds}}
         \cup {<<a, b>> : a \in StatusEntries("cg1"), b \in StatusEntries("cg_2")}
         \cup {<<b, a>> : a \in StatusEntries("cg1"), b \in StatusEntries("cg_2")}

InitStatus ==
  /\ cgSpec \in {<<a>> : a \in [UniqueId : CGIds, Replicas : 0..MaxReplicas]}
  /\ cgStatuses \in StatusLists
  /\ health = [CGCount |-> 0, CGFullAvailableCount |-> 0, CGAvailableCount |-> 0]
  /\ sts = [u \in CGIds |-> NoSts]
  /\ backends = [n \in CGNames |-> {}]
  /\ syncIdx = 0
  /\ ucs = UcsIdle
  /\ feSpec = [Replicas |-> NilReplicas, ElectionNumber |-> 1]
  /\ feSts = NoSts
  /\ observers = {}
  /\ svc = {}
  /\ pvcs = [u \in CGIds |-> {}]
  /\ clr = ClrIdle
  /\ last = NoOp

\* dcgs.initialCGStatus(ddc, cg), as computeGroupSync calls it.
Reinitialize ==
  /\ \E k \in 1..Len(cgSpec) :
       LET cg == cgSpec[k]
           i0 == StatusIndex(cgStatuses, cg.UniqueId)
       IN /\ cgStatuses' = initialCGStatus(cgStatuses, cg)
          /\ last' = [op |-> "initialCGStatus",
                      uniqueId |-> cg.UniqueId,
                      phase0 |-> IF i0 = 0 THEN "" ELSE cgStatuses[i0].Phase,
                      again |-> last.op = "initialCGStatus"]
  /\ UNCHANGED <<cgSpec, health, sts, backends, syncIdx, ucs>>
  /\ UNCHANGED feVars
  /\ UNCHANGED clVars

SpecInit == InitStatus /\ [][Reinitialize]_vars

(***************************************************************************)
(* Properties                                                              *)
(***************************************************************************)
Max(a, b) == IF a >= b THEN a ELSE b
AllParse(hosts) == \A h \in hosts : Atoi(h) >= 0
IsCGSync == last.op = "computeGroupSync"
IsPrepare == last.op = "prepareStatefulsetApply"

\* C1: when the desired count R is below the StatefulSet's previous count and the
\* drain has fetched the group's backends, all with a parsable ordinal, one
\* DropBE call carries exactly the backends of ordinal >= R (ordinals below R are
\* kept); when there is none, no call is made and the drain succeeds.
C1_DrainSelection ==
  (IsCGSync /\ last.fetched /\ AllParse(last.live)
     /\ last.est # NoSts /\ last.keep < last.est)
  => LET dropSet == {h \in last.live : Atoi(h) >= last.keep}
     IN /\ dropSet = {} => (last.dropCalls = <<>> /\ ~last.drainErr)
        /\ dropSet # {} => last.dropCalls = <<dropSet>>
        /\ (dropSet # {} /\ ~last.drainErr)
             => backends[CGName(last.uniqueId)] = last.live \ dropSet

C1_Witness ==
  /\ IsCGSync /\ last.fetched /\ AllParse(last.live)
  /\ last.est # NoSts /\ last.keep < last.est
  /\ \E h \in last.live : Atoi(h) >= last.keep
  /\ \E h \in last.live : Atoi(h) < last.keep
  /\ Len(last.dropCalls) = 1
  /\ ~last.drainErr

\* C2 as claimed: in a cycle whose desired count R is >= the StatefulSet's
\* previous count, whatever the persisted phase, no backend removal call is made.
C2_NoRemovalWhenNotShrinking ==
  (IsCGSync /\ last.est # NoSts /\ last.keep >= last.est)
  => last.dropCalls = <<>>

\* C2 amended: in a cycle whose desired count R is >= the StatefulSet's previous
\* count and whose phase after initialCGStatus is not ScaleDownFailed, no
\* administrative connection is opened and no backend removal call is made.
C2_NoRemovalUnlessRetry ==
  (IsCGSync /\ last.est # NoSts /\ last.keep >= last.est
     /\ last.phase1 # ScaleDownFailed)
  => /\ last.dropCalls = <<>>
     /\ last.conn = 0
     /\ backends[CGName(last.uniqueId)] = last.live

C2_Witness ==
  /\ IsCGSync /\ last.est # NoSts /\ last.keep >= last.est
  /\ last.phase1 = Scaling
  /\ last.applied
  /\ last.live # {}

\* C3: once the clamp of prepareStatefulsetApply has run, the desired FE count is
\* max(specified, Q): a count >= Q is unchanged and no event is recorded, a count
\* below Q becomes Q with one warning event; dropObserverBySqlClient is only
\* entered with a count >= Q.
C3_QuorumClamp ==
  (IsPrepare /\ last.clampRun)
  => /\ last.replicas = Max(last.specified, last.ele)
     /\ feSpec.Replicas = last.replicas
     /\ last.specified >= last.ele
          => (last.replicas = last.specified /\ last.events = <<>>)
     /\ last.specified < last.ele
          => (last.replicas = last.ele
              /\ last.events = <<Event(EventWarning, "FESpecSetError")>>)
     /\ last.drained => last.replicas >= last.ele

C3_Witness ==
  /\ IsPrepare /\ last.clampRun
  /\ last.specified < last.ele
  /\ last.drained
  /\ last.fetched

C5_NoDrainWhenNotShrinking ==
  (IsPrepare /\ last.clampRun /\ last.replicas - last.old >= 0)
  => /\ last.conn = 0
     /\ last.dropCalls = <<>>
     /\ ~last.drained
     /\ ~last.err
     /\ observers = last.live

C5_Witness ==
  /\ IsPrepare /\ last.clampRun /\ last.replicas - last.old >= 0
  /\ last.specified < last.old
  /\ last.live # {}

PhaseOf(cgss, uniqueId) ==
  IF StatusIndex(cgss, uniqueId) = 0 THEN ""
  ELSE cgss[StatusIndex(cgss, uniqueId)].Phase

\* C6: initialCGStatus leaves a persisted phase ScaleDownFailed, Suspended,
\* SuspendFailed or ResumeFailed as it is, and applying it again right after
\* changes nothing (idempotent).
C6_StickyReinit ==
  [][\A i \in 1..Len(cgStatuses) :
       (/\ last'.op = "initialCGStatus"
        /\ last'.uniqueId = cgStatuses[i].UniqueId
        /\ cgStatuses[i].Phase \in {ScaleDownFailed, Suspended, SuspendFailed, ResumeFailed})
       => /\ Len(cgStatuses') = Len(cgStatuses)
          /\ cgStatuses'[i].Phase = cgStatuses[i].Phase
          /\ last.op = "initialCGStatus" => cgStatuses' = cgStatuses]_vars

C6_Witness ==
  /\ last.op = "initialCGStatus"
  /\ last.again
  /\ last.phase0 = Suspended
  /\ PhaseOf(cgStatuses, last.uniqueId) = Suspended
  /\ Len(cgStatuses) = 2

\* C7 as claimed: initialCGStatus sets the phase to Reconciling unless the
\* persisted phase is ScaleDownFailed, Suspended, SuspendFailed or ResumeFailed.
C7_DefaultReinit ==
  (IsCGSync
     /\ last.phase0 \notin {ScaleDownFailed, Suspended, SuspendFailed, ResumeFailed})
  => last.phase1 = Reconciling

\* C7 amended: initialCGStatus sets the phase to Reconciling unless the persisted
\* phase is ScaleDownFailed, Suspended, SuspendFailed, ResumeFailed or Scaling,
\* which it keeps; a group persisted as Ready or Reconciling, or without an
\* entry, starts the cycle in Reconciling.
C7_DefaultReinitKeepsScaling ==
  IsCGSync
  => /\ last.phase0 \in {"", Ready, Reconciling} => last.phase1 = Reconciling
     /\ last.phase0 \in {ScaleDownFailed, Suspended, SuspendFailed, ResumeFailed, Scaling}
          => last.phase1 = last.phase0
     /\ ~last.reconciled => PhaseOf(cgStatuses, last.uniqueId) = last.phase1

C7_Witness ==
  /\ IsCGSync
  /\ last.phase0 = Ready
  /\ last.phase1 = Reconciling

\* C8: when the connection, the backend listing or the DropBE call of a
\* scale-down drain fails, no removal call follows the failure and no backend is
\* removed, the phase is ScaleDownFailed, reconcileStatefulset returns the error,
\* Sync records exactly one warning event for the group, and the drain has run
\* once.
C8_DrainFailure ==
  (/\ IsCGSync /\ last.scaleType = "scaleDown" /\ last.applied
   /\ \/ last.drainFail \in {"conn", "fetch"}
      \/ /\ last.drainFail = "drop"
         /\ AllParse(last.live)
         /\ \E h \in last.live : Atoi(h) >= last.keep)
  => /\ PhaseOf(cgStatuses, last.uniqueId) = ScaleDownFailed
     /\ last.err
     /\ last.events = <<Event(EventWarning, "CGSqlExecFailed")>>
     /\ last.conn = 1
     /\ last.drainFail \in {"conn", "fetch"} => last.dropCalls = <<>>
     /\ Len(last.dropCalls) <= 1
     /\ backends[CGName(last.uniqueId)] = last.live

C8_Witness ==
  /\ IsCGSync /\ last.scaleType = "scaleDown" /\ last.applied
  /\ last.drainFail = "conn"
  /\ last.phase1 = Reconciling
  /\ \E h \in last.live : Atoi(h) >= last.keep
  /\ PhaseOf(cgStatuses, last.uniqueId) = ScaleDownFailed

\* C9: a phase ScaleDownFailed stays ScaleDownFailed over every step of Sync and
\* UpdateComponentStatus, except the step in which the drain of that group
\* succeeds.
C9_StickyScaleDownFailed ==
  [][\A i \in 1..Len(cgStatuses) :
       cgStatuses[i].Phase = ScaleDownFailed
       => \/ PhaseOf(cgStatuses', cgStatuses[i].UniqueId) = ScaleDownFailed
          \/ /\ last'.op = "computeGroupSync"
             /\ last'.uniqueId = cgStatuses[i].UniqueId
             /\ last'.conn = 1
             /\ ~last'.drainErr]_vars

\* Sync alone keeps C9: only updateCGStatus replaces ScaleDownFailed otherwise.
C9_StickyInSync ==
  [][\A i \in 1..Len(cgStatuses) :
       (cgStatuses[i].Phase = ScaleDownFailed /\ last'.op # "updateCGStatus")
       => \/ PhaseOf(cgStatuses', cgStatuses[i].UniqueId) = ScaleDownFailed
          \/ /\ last'.op = "computeGroupSync"
             /\ last'.uniqueId = cgStatuses[i].UniqueId
             /\ last'.conn = 1
             /\ ~last'.drainErr]_vars

\* C10: a drain that failed is retried by every following pass of the group
\* until it succeeds, so a pass whose calls all succeed (the StatefulSet carries
\* R, every backend host parses) leaves no backend of ordinal >= R registered.
C10_RetryUntilDrained ==
  (IsCGSync /\ last.applied /\ ~last.err /\ AllParse(last.live))
  => \A h \in backends[CGName(last.uniqueId)] : Atoi(h) < last.keep

\* C11: in a pass where the StatefulSet found has more replicas than the new one,
\* the apply succeeds and the drain returns without error, the phase at the end
\* of reconcileStatefulset is Scaling and the drain has dropped exactly the live
\* backends of ordinal >= the desired count; a pass without shrink whose phase is
\* not ScaleDownFailed leaves the phase as initialCGStatus set it, so it does not
\* turn a phase other than Scaling into Scaling.
C11_ReconcilingToScaling ==
  IsCGSync
  => /\ (/\ last.est # NoSts /\ last.keep < last.est
         /\ last.applied /\ ~last.drainErr)
        => /\ PhaseOf(cgStatuses, last.uniqueId) = Scaling
           /\ last.conn = 1
           /\ backends[CGName(last.uniqueId)]
                = {h \in last.live : Atoi(h) < last.keep}
           /\ \A k \in 1..Len(last.dropCalls) :
                last.dropCalls[k] = {h \in last.live : Atoi(h) >= last.keep}
     /\ (~(last.est # NoSts /\ last.keep < last.est)
         /\ last.phase1 # ScaleDownFailed)
        => /\ PhaseOf(cgStatuses, last.uniqueId) = last.phase1
           /\ last.phase0 # Scaling => PhaseOf(cgStatuses, last.uniqueId) # Scaling
           /\ last.conn = 0

C11_Witness ==
  /\ IsCGSync
  /\ last.est = MaxReplicas /\ last.keep = MaxReplicas - 1
  /\ last.applied /\ ~last.drainErr
  /\ last.phase1 = Reconciling
  /\ last.dropCalls = <<{OrdHost(MaxReplicas - 1)}>>
  /\ PhaseOf(cgStatuses, last.uniqueId) = Scaling

IsClearPVC == last.op = "ClearStatefulsetUnusedPVCs"

\* The claim `name` is one the StatefulSet names for a pod of ordinal below
\* `replicas`: its log volume or one of its first `paths` storage volumes.
NamedForPod(name, uniqueId, replicas, paths) ==
  /\ name # StrayPVC(uniqueId)
  /\ name[Len(name) - 1] = GetCGStatefulsetName(uniqueId)
  /\ Atoi(<<name[Len(name)]>>) \in 0..(replicas - 1)
  /\ \/ Len(name) = 3 /\ name[1] = "be-log"
     \/ Len(name) = 4 /\ name[1] = "be-storage" /\ Atoi(<<name[2]>>) \in 0..(paths - 1)

\* C12: for a group of the specification with replicas >= 1 and a phase other
\* than Suspended and SuspendFailed, ClearStatefulsetUnusedPVCs (its List having
\* succeeded) retains exactly the replicas x paths + replicas names of the log
\* and storage volumes of the ordinals below replicas, and attempts to delete
\* every other listed claim; with replicas 0 or phase Suspended or
\* SuspendFailed it attempts no deletion and every listed claim stays.
C12_ReclamationSet ==
  (IsClearPVC /\ last.listOk /\ last.specIndex # 0
   /\ cgSpec[last.specIndex].Replicas # NilReplicas)
  => LET u == last.uniqueId
         replicas == cgSpec[last.specIndex].Replicas
         skip == replicas = 0 \/ last.phase \in {Suspended, SuspendFailed}
     IN /\ ~skip
           => /\ Cardinality(last.reserve) = replicas * last.paths + replicas
              /\ \A name \in PVCNames(u) :
                   name \in last.reserve
                     <=> NamedForPod(name, u, replicas, last.paths)
              /\ last.attempted = last.listed \ last.reserve
              /\ pvcs[u] = (last.listed \cap last.reserve) \cup last.failed
        /\ skip
           => /\ last.attempted = {}
              /\ pvcs[u] = last.listed
              /\ ~last.err

C12_Witness ==
  /\ IsClearPVC /\ last.listOk /\ last.specIndex # 0
  /\ cgSpec[last.specIndex].Replicas = 1
  /\ last.phase = Ready
  /\ last.paths = MaxPaths
  /\ last.reserve \subseteq last.listed
  /\ StrayPVC(last.uniqueId) \in last.attempted
  /\ Cardinality(last.attempted) > 1
  /\ last.failed = {}
  /\ pvcs[last.uniqueId] = last.reserve

\* C13: the claims of a group removed from the specification are deleted only
\* in a pass that has deleted both its StatefulSet and its Service: a pass in
\* which either deletion failed deletes none of that group's claims.
C13_TeardownOrdering ==
  \A u \in CGIds :
    (/\ ~InSpec(cgSpec, u)
     /\ \E x \in clr.done.pvcDeleted : x[1] = u)
    => u \in clr.done.stsDeleted \cap clr.done.svcDeleted

\* C14: when ClearResources returns, the entry of a group that is not in the
\* specification is absent exactly when the pass deleted both its StatefulSet
\* and its Service, and is otherwise present as it was; the entry of a group of
\* the specification is kept as it was; no entry is added.
C14_StatusRetention ==
  last.op = "ClearResources"
  => /\ \A i \in 1..Len(last.statuses0) :
          LET e == last.statuses0[i]
              j == StatusIndex(cgStatuses, e.UniqueId)
              deleted == /\ e.UniqueId \in last.done.stsDeleted
                         /\ e.UniqueId \in last.done.svcDeleted
          IN /\ InSpec(cgSpec, e.UniqueId) => j # 0
             /\ ~InSpec(cgSpec, e.UniqueId) => (j = 0 <=> deleted)
             /\ j # 0 => cgStatuses[j] = e
     /\ \A j \in 1..Len(cgStatuses) :
          \E i \in 1..Len(last.statuses0) : last.statuses0[i] = cgStatuses[j]
     /\ Len(cgStatuses) <= Len(last.statuses0)

C14_Witness ==
  /\ last.op = "ClearResources"
  /\ Len(last.statuses0) = 2
  /\ Len(cgSpec) = 0
  /\ Len(cgStatuses) = 1
  /\ cgStatuses[1].UniqueId \in last.done.stsDeleted \ last.done.svcDeleted
  /\ \E i \in 1..2 : last.statuses0[i].UniqueId
                       \in last.done.stsDeleted \cap last.done.svcDeleted

\* C16: updateCGStatus of an entry, when the pod List succeeds, writes the
\* number of ready pods to AvailableReplicas and sets the phase to Ready when
\* that number equals the entry's Replicas, whatever the phase was, and leaves
\* the phase as it was otherwise; when the List fails it leaves the entry as it
\* was. It changes nothing else of the entry and no other entry.
C16_ReadyTransition ==
  [][last'.op = "updateCGStatus"
     => LET e == cgStatuses[last'.idx]
            e2 == cgStatuses'[last'.idx]
        IN /\ Len(cgStatuses') = Len(cgStatuses)
           /\ \A j \in 1..Len(cgStatuses) :
                j # last'.idx => cgStatuses'[j] = cgStatuses[j]
           /\ last'.phase0 = e.Phase
           /\ ~last'.listOk => e2 = e
           /\ last'.listOk
                => /\ e2.AvailableReplicas = last'.availableReplicas
                   /\ last'.availableReplicas = e.Replicas => e2.Phase = Ready
                   /\ last'.availableReplicas # e.Replicas => e2.Phase = e.Phase
                   /\ e2 = [e EXCEPT !.AvailableReplicas = e2.AvailableReplicas,
                                     !.Phase = e2.Phase]]_vars

C16_Witness ==
  /\ last.op = "updateCGStatus"
  /\ last.listOk
  /\ last.phase0 = Scaling
  /\ last.availableReplicas = cgStatuses[last.idx].Replicas
  /\ last.availableReplicas > 0
  /\ cgStatuses[last.idx].Phase = Ready

\* C19: ClearStatefulsetUnusedPVCs attempts the deletion of every claim outside
\* the retain set even when deletions fail, and the error it returns is non-nil
\* if and only if at least one deletion failed.
C19_DeletionAggregation ==
  (IsClearPVC /\ ~last.panic)
  => /\ (last.listOk /\ ~last.skipped)
          => last.attempted = last.listed \ last.reserve
     /\ last.err <=> last.failed # {}

\* C19 amended: once the List has succeeded, the deletion of every claim
\* outside the retain set is attempted even when deletions fail, every claim
\* whose deletion did not fail is gone, one PVCDeleteFailed event is recorded
\* per failure, and the error returned is non-nil if and only if at least one
\* deletion failed; when the List fails its error is returned, with one
\* PVCListFailed event, and no deletion is attempted.
C19_DeletionAggregationListed ==
  (IsClearPVC /\ ~last.panic)
  => /\ last.listOk
          => /\ ~last.skipped => last.attempted = last.listed \ last.reserve
             /\ pvcs[last.uniqueId] = (last.listed \ last.attempted) \cup last.failed
             /\ last.failed \subseteq last.attempted
             /\ last.events = [n \in 1..Cardinality(last.failed) |->
                                 Event(EventWarning, "PVCDeleteFailed")]
             /\ last.err <=> last.failed # {}
     /\ ~last.listOk
          => /\ last.err
             /\ last.attempted = {}
             /\ last.events = <<Event(EventWarning, "PVCListFailed")>>
             /\ pvcs[last.uniqueId] = last.listed

C19_Witness ==
  /\ IsClearPVC /\ last.listOk
  /\ Cardinality(last.attempted) > 1
  /\ Cardinality(last.failed) = 1
  /\ last.err
  /\ pvcs[last.uniqueId] \cap last.attempted = last.failed

\* C18: in UpdateComponentStatus a failed task stops no other task: while tasks
\* are pending each can run and errChan has a free slot for each of them, so no
\* send blocks; when it returns after the join every task has delivered one
\* result, the counters are those of the status list, and the error returned
\* is non-nil if and only if some task failed.
C18_FailureIsolation ==
  /\ ucs.active
       => /\ Len(ucs.errChan) + Cardinality(ucs.todo) = Len(cgStatuses)
          /\ ucs.todo # {} => ENABLED UCSTask
          /\ ucs.todo = {} => ENABLED UCSJoin
  /\ (last.op = "UpdateComponentStatus" /\ last.joined)
       => /\ Len(last.results) = Len(cgStatuses)
          /\ last.err <=> \E k \in 1..Len(last.results) : last.results[k]
          /\ health.CGCount = Len(cgStatuses)
          /\ health.CGFullAvailableCount
               = Cardinality({i \in 1..Len(cgStatuses) : cgStatuses[i].Phase = Ready})
          /\ health.CGAvailableCount
               = Cardinality({i \in 1..Len(cgStatuses) :
                                cgStatuses[i].AvailableReplicas > 0})

C18_Witness ==
  /\ last.op = "UpdateComponentStatus" /\ last.joined
  /\ last.results = <<TRUE, FALSE>>
  /\ last.err
  /\ health.CGCount = 2
  /\ health.CGAvailableCount = 1
  /\ health.CGFullAvailableCount = 1

\* C15: the status list never holds two entries with the same identifier, and
\* when a Sync pass that passed FE availability and validation has gone through
\* every group, each identifier of the specification has exactly one entry.
C15_StatusUniqueness ==
  /\ \A i, j \in 1..Len(cgStatuses) :
       cgStatuses[i].UniqueId = cgStatuses[j].UniqueId => i = j
  /\ (last.op = "computeGroupSync" /\ syncIdx = 0)
       => \A k \in 1..Len(cgSpec) :
            Cardinality({i \in 1..Len(cgStatuses) :
                           cgStatuses[i].UniqueId = cgSpec[k].UniqueId}) = 1

C15_Witness ==
  /\ last.op = "computeGroupSync" /\ syncIdx = 0
  /\ Len(cgSpec) = 2
  /\ Len(cgStatuses) = 2
  /\ cgStatuses[1].UniqueId = cgSpec[2].UniqueId
  /\ cgStatuses[2].UniqueId = cgSpec[1].UniqueId

\* C17: UpdateComponentStatus writes the counters only once every task has
\* finished, and when it returns CGCount is the number of status entries,
\* CGFullAvailableCount the number of entries whose phase is Ready and
\* CGAvailableCount the number of entries with AvailableReplicas > 0, whatever
\* the counters were before.
C17_JoinBarrier ==
  [][/\ health' # health
          => ucs.active /\ ucs.todo = {} /\ last'.op = "UpdateComponentStatus"
     /\ last'.op = "UpdateComponentStatus"
          => /\ health'.CGCount = Len(cgStatuses')
             /\ health'.CGFullAvailableCount
                  = Cardinality({i \in 1..Len(cgStatuses') :
                                   cgStatuses'[i].Phase = Ready})
             /\ health'.CGAvailableCount
                  = Cardinality({i \in 1..Len(cgStatuses') :
                                   cgStatuses'[i].AvailableReplicas > 0})]_vars

\* With at least one status entry C17 holds: only the return on an empty status
\* list leaves the counters of an earlier cycle in place.
C17_JoinBarrierNonEmpty ==
  [][/\ health' # health
          => ucs.active /\ ucs.todo = {} /\ last'.op = "UpdateComponentStatus"
     /\ (last'.op = "UpdateComponentStatus" /\ Len(cgStatuses') > 0)
          => /\ health'.CGCount = Len(cgStatuses')
             /\ health'.CGFullAvailableCount
                  = Cardinality({i \in 1..Len(cgStatuses') :
                                   cgStatuses'[i].Phase = Ready})
             /\ health'.CGAvailableCount
                  = Cardinality({i \in 1..Len(cgStatuses') :
                                   cgStatuses'[i].AvailableReplicas > 0})]_vars

\* The specification repeats an identifier or carries one outside the pattern.
InvalidSpec(cgs) ==
  \/ \E i, j \in 1..Len(cgs) : i # j /\ cgs[i].UniqueId = cgs[j].UniqueId
  \/ \E i \in 1..Len(cgs) : cgs[i].UniqueId = BadId

\* Sync has left the statuses, the StatefulSets, the Services, the backends and
\* the claims as they were and has not entered its loop.
SyncMutatesNothing ==
  /\ syncIdx' = 0
  /\ ~last'.entered
  /\ UNCHANGED <<cgSpec, cgStatuses, health, sts, svc, backends, pvcs>>

\* C20: when the specification repeats an identifier or carries one outside the
\* naming pattern, Sync records a warning event and returns an error, without
\* touching any status, Service or StatefulSet and without any removal call.
C20_ValidationAborts ==
  [][(last'.op = "Sync" /\ InvalidSpec(cgSpec))
     => /\ last'.err
        /\ Len(last'.events) = 1 /\ last'.events[1].Type = EventWarning
        /\ SyncMutatesNothing]_vars

\* C20 amended: with such a specification and an FE available, Sync records
\* one warning event (CGUniqueIdentifierDuplicate for a repeated identifier,
\* else CGUniqueIdentifierNotMatchRegex) and returns an error; with no FE
\* available it records the normal event WaitFEAvailable and returns nil without
\* validating. In both cases it touches no status, Service or StatefulSet and
\* makes no removal call.
C20_ValidationAbortsWhenFEAvailable ==
  [][(last'.op = "Sync" /\ InvalidSpec(cgSpec))
     => /\ SyncMutatesNothing
        /\ last'.fe \in {"available", "unavailable"}
        /\ last'.fe = "available"
             => /\ last'.err
                /\ last'.events =
                     <<Event(EventWarning,
                             IF \E i, j \in 1..Len(cgSpec) :
                                  i # j /\ cgSpec[i].UniqueId = cgSpec[j].UniqueId
                               THEN "CGUniqueIdentifierDuplicate"
                               ELSE "CGUniqueIdentifierNotMatchRegex")>>
        /\ last'.fe = "unavailable"
             => /\ ~last'.err
                /\ last'.events = <<Event(EventNormal, "WaitFEAvailable")>>]_vars

C20_Witness ==
  /\ last.op = "Sync" /\ last.err /\ ~last.entered
  /\ last.events = <<Event(EventWarning, "CGUniqueIdentifierDuplicate")>>
  /\ Len(cgSpec) = 2 /\ cgSpec[1].UniqueId = cgSpec[2].UniqueId
  /\ Len(cgStatuses) = 2
  /\ syncIdx = 0

(***************************************************************************)
(* Sync's pass over the groups                                             *)
(***************************************************************************)
\* What a step leaves alone of the groups other than uniqueId: StatefulSet,
\* registered backends, Service, status phase.
OtherGroupsUntouched(uniqueId) ==
  \A v \in CGIds \ {uniqueId} :
    /\ sts'[v] = sts[v]
    /\ backends'[CGName(v)] = backends[CGName(v)]
    /\ (v \in svc') = (v \in svc)
    /\ PhaseOf(cgStatuses', v) = PhaseOf(cgStatuses, v)

\* C21: Sync processes the groups one at a time in specification order: while
\* the pass is at position i, the only step is the whole computeGroupSync of
\* cgs[i] (service, StatefulSet and at most one drain, of that group's own
\* backends), it touches no other group, and whether or not it returns an
\* error the pass moves on to cgs[i+1], ending after the last group.
C21_SequentialIsolatedPass ==
  [][syncIdx # 0 =>
       /\ syncIdx \in 1..Len(cgSpec)
       /\ last'.op = "computeGroupSync"
       /\ last'.uniqueId = cgSpec[syncIdx].UniqueId
       /\ last'.conn <= 1
       /\ Len(last'.dropCalls) <= 1
       /\ last'.live = backends[CGName(cgSpec[syncIdx].UniqueId)]
       /\ OtherGroupsUntouched(cgSpec[syncIdx].UniqueId)
       /\ syncIdx' = IF syncIdx < Len(cgSpec) THEN syncIdx + 1 ELSE 0]_vars

\* The first group's drain failed in this pass (its phase is ScaleDownFailed)
\* and the second group was then reconciled and drained without error.
C21_Witness ==
  /\ Len(cgSpec) = 2
  /\ syncIdx = 0
  /\ last.op = "computeGroupSync"
  /\ last.uniqueId = cgSpec[2].UniqueId
  /\ ~last.err
  /\ Len(last.dropCalls) = 1
  /\ PhaseOf(cgStatuses, cgSpec[1].UniqueId) = ScaleDownFailed
  /\ PhaseOf(cgStatuses, cgSpec[2].UniqueId) = Scaling

(***************************************************************************)
(* Topology resolution errors                                              *)
(***************************************************************************)
\* The drain of a compute group came to resolve the ordinals of the backends
\* it fetched and one of them does not parse.
CGResolutionFails == IsCGSync /\ last.fetched /\ ~AllParse(last.live)

\* The drain of the FE tier came to resolve the pod indexes of the observers it
\* fetched (some have to go) and cannot: a host does not parse, or the pod
\* listing of the IP start mode fails.
FEResolutionFails ==
  /\ IsPrepare /\ last.fetched /\ last.needRemoved > 0
  /\ ~AllParse(last.live) \/ last.podsFailed

\* C22: in both tiers, when the ordinal of a live node cannot be resolved, the
\* drain issues no removal call and returns the error to its caller (for a
\* compute group the phase becomes ScaleDownFailed and the pass records the
\* error).
C22_ResolutionErrorReturned ==
  /\ CGResolutionFails
       => /\ last.dropCalls = <<>>
          /\ last.drainErr /\ last.err
          /\ last.phase = ScaleDownFailed
  /\ FEResolutionFails
       => /\ last.dropCalls = <<>>
          /\ last.err

\* The compute-group half of C22, which the code keeps: an unparsable backend
\* host ends scaledOutBENodesBySQL with the error before DropBE, no backend is
\* removed and reconcileStatefulset sets ScaleDownFailed.
C22_ResolutionErrorReturnedCG ==
  CGResolutionFails
    => /\ last.dropCalls = <<>>
       /\ last.drainErr /\ last.err
       /\ last.phase = ScaleDownFailed
       /\ backends[CGName(last.uniqueId)] = last.live

\* The FE half as the code has it: no removal call, and nil returned.
C22_ResolutionErrorSwallowedFE ==
  FEResolutionFails
    => /\ last.dropCalls = <<>>
       /\ ~last.err
       /\ observers = last.live

(***************************************************************************)
(* Writes of UpdateComponentStatus                                         *)
(***************************************************************************)
\* C23: while UpdateComponentStatus runs, a change of the status list is the
\* goroutine of one index that has not run yet: it writes the entry at its own
\* index only, of that entry AvailableReplicas and Phase only, from that entry
\* and its own pod list alone, and leaves the cluster-wide counters alone; no
\* index runs twice; the counters change only in the caller after the join,
\* which writes no entry.
C23_DisjointWrites ==
  [][ucs.active =>
       /\ cgStatuses' # cgStatuses =>
            /\ last'.op = "updateCGStatus"
            /\ last'.idx \in ucs.todo
            /\ Len(cgStatuses') = Len(cgStatuses)
            /\ \A j \in 1..Len(cgStatuses) :
                 j # last'.idx => cgStatuses'[j] = cgStatuses[j]
            /\ cgStatuses'[last'.idx] =
                 [cgStatuses[last'.idx] EXCEPT
                    !.AvailableReplicas = cgStatuses'[last'.idx].AvailableReplicas,
                    !.Phase = cgStatuses'[last'.idx].Phase]
            /\ cgStatuses'[last'.idx] =
                 updateCGStatus(cgStatuses[last'.idx], last'.listOk,
                                last'.availableReplicas)
       /\ last'.op = "updateCGStatus" =>
            /\ ucs'.todo = ucs.todo \ {last'.idx}
            /\ last'.idx \in ucs.todo
            /\ health' = health
       /\ health' # health =>
            /\ ucs.todo = {}
            /\ last'.op = "UpdateComponentStatus" /\ last'.joined
            /\ cgStatuses' = cgStatuses]_vars

\* Two goroutines have run, the one of index 2 before the one of index 1, and
\* each has written its own entry (no entry starts with MaxReplicas available).
C23_Witness ==
  /\ ucs.active /\ ucs.todo = {}
  /\ Len(cgStatuses) = 2
  /\ last.op = "updateCGStatus" /\ last.idx = 1 /\ last.listOk
  /\ cgStatuses[1].AvailableReplicas = MaxReplicas
  /\ cgStatuses[2].AvailableReplicas = MaxReplicas
  /\ cgStatuses[1].Phase # cgStatuses[2].Phase

(***************************************************************************)
(* Order of the apply and the drain in reconcileStatefulset                *)
(***************************************************************************)
\* C24: in reconcileStatefulset the scale type comes from the StatefulSet as it
\* was before the apply (last.est) and the phase after initialCGStatus; a drain
\* is only attempted once the apply has succeeded, the StatefulSet then already
\* carrying the new count, whether the drain succeeds or not; when the
\* StatefulSet does not exist (create path) or the apply did not succeed, no
\* connection is opened, no backend is removed and the phase stays what
\* initialCGStatus left.
C24_ApplyBeforeDrain ==
  IsCGSync =>
    /\ last.applied =>
         /\ last.est # NoSts
         /\ (last.scaleType = "scaleDown")
              <=> (last.keep < last.est \/ last.phase1 = ScaleDownFailed)
         /\ last.scaleType = "scaleDown" => last.conn = 1
         /\ sts[last.uniqueId] = last.keep
    /\ last.conn = 1 => (last.applied /\ sts[last.uniqueId] = last.keep)
    /\ (last.est = NoSts \/ ~last.applied) =>
         /\ last.conn = 0
         /\ last.dropCalls = <<>>
         /\ backends[CGName(last.uniqueId)] = last.live
         /\ last.phase = last.phase1
         /\ PhaseOf(cgStatuses, last.uniqueId) = last.phase1

\* A shrink whose apply failed: a backend at or above the new count is live,
\* the apply error is recorded and the drain has not been attempted.
C24_Witness ==
  /\ IsCGSync
  /\ last.reconciled /\ ~last.applied
  /\ last.est # NoSts /\ last.keep < last.est
  /\ last.events = <<Event(EventWarning, "CGApplyResourceFailed")>>
  /\ \E h \in last.live : Atoi(h) >= last.keep
  /\ last.conn = 0
  /\ sts[last.uniqueId] = last.est

\* The drain failed after the apply: the StatefulSet already has the new count.
C24_WitnessDrainFailed ==
  /\ IsCGSync /\ last.applied /\ last.drainErr
  /\ last.keep < last.est
  /\ sts[last.uniqueId] = last.keep
  /\ last.phase = ScaleDownFailed

(***************************************************************************)
(* Drain of a removed group                                                *)
(***************************************************************************)
\* A group that is neither specified nor has a status entry.
Forgotten(cgs, cgss, u) == ~InSpec(cgs, u) /\ StatusIndex(cgss, u) = 0

\* C25: for a group that is no longer specified, ClearResources opens the
\* drain, with keep amount 0, exactly when both its StatefulSet and its Service
\* deletion succeeded, and the removal call then names every live backend of the
\* group; a failed drain leaves only the CGSqlExecFailed warning: the entry is
\* not kept, the pass that returns drops it from the status list and returns no
\* error; and a group that is neither specified nor in the status list is not
\* drained by any later step, its backends stay as they are.
C25_RemovedGroupDrain ==
  [][/\ (clr.pc = "delete" /\ clr'.i # clr.i) =>
          LET u == last'.uniqueId
              cleared == u \in clr'.done.stsDeleted /\ u \in clr'.done.svcDeleted
          IN /\ last'.op = "ClearResources.delete"
             /\ ~InSpec(cgSpec, u) /\ StatusIndex(cgStatuses, u) # 0
             /\ last'.keep = 0
             /\ (last'.conn = 1) <=> cleared
             /\ last'.conn = 0 =>
                  /\ last'.dropCalls = <<>>
                  /\ backends' = backends
                  /\ \E k \in 1..Len(clr'.eCGs) : clr'.eCGs[k].UniqueId = u
             /\ (last'.conn = 1 /\ last'.fail \notin {"conn", "fetch"}
                   /\ AllParse(last'.live) /\ last'.live # {})
                  => last'.dropCalls = <<last'.live>>
             /\ last'.drainErr =>
                  /\ last'.events = <<Event(EventWarning, "CGSqlExecFailed")>>
                  /\ clr'.eCGs = clr.eCGs
                  /\ backends' = backends
     /\ (clr.pc = "end" /\ clr' # clr) =>
          /\ last'.op = "ClearResources" /\ ~last'.err
          /\ \A u \in clr.done.drained : StatusIndex(cgStatuses', u) = 0
     /\ \A u \in CGIds :
          (Forgotten(cgSpec, cgStatuses, u) /\ ~InSpec(cgSpec', u)) =>
            /\ Forgotten(cgSpec', cgStatuses', u)
            /\ backends'[CGName(u)] = backends[CGName(u)]
            /\ u \notin clr'.done.drained]_vars

\* The drain of a removed group failed in one pass, which dropped its entry;
\* a later pass has run to its end without an entry to clear, and the group's
\* backend is still registered.
C25_Witness ==
  /\ last.op = "ClearResources"
  /\ last.clearCGs = <<>>
  /\ \E u \in CGIds :
       /\ Forgotten(cgSpec, cgStatuses, u)
       /\ StatusIndex(last.statuses0, u) = 0
       /\ sts[u] = NoSts /\ u \notin svc
       /\ backends[CGName(u)] = {OrdHost(0)}

====
